---- MODULE Spec2Model ----
(***************************************************************************)
(* Model of final_project.py: the Student Service Manager controller.      *)
(* One action of Spec is one execution of main() (one Streamlit script     *)
(* run) against the MySQL tables Students, Services and StudentServices.   *)
(* Text is modelled as sequences of one-character strings.                 *)
(***************************************************************************)
EXTENDS Integers, Sequences, FiniteSets, TLC

VARIABLES Students, Services, StudentServices, conn, crash, rerun, msgs, last,
          arg, res, pc

vars == <<Students, Services, StudentServices, conn, crash, rerun, msgs, last,
          arg, res, pc>>

dbvars == <<Students, Services, StudentServices>>

(***************************************************************************)
(* Bound of the model: the longest string the validator is applied to.     *)
(* The tables are bounded by the keys the operator can type.               *)
(***************************************************************************)
MaxLen == 3

(***************************************************************************)
(* Python str helpers: str.strip, str.upper, str.lower, str.title.         *)
(***************************************************************************)
LowerLetters == <<"a","b","c","d","e","f","g","h","i","j","k","l","m",
                  "n","o","p","q","r","s","t","u","v","w","x","y","z">>
UpperLetters == <<"A","B","C","D","E","F","G","H","I","J","K","L","M",
                  "N","O","P","Q","R","S","T","U","V","W","X","Y","Z">>
Digits == {"0","1","2","3","4","5","6","7","8","9"}
Whitespace == {" ", "\n", "\t"}

Range(f) == {f[i] : i \in DOMAIN f}

LowerSet == Range(LowerLetters)
UpperSet == Range(UpperLetters)

IsLowerLetter(c) == c \in LowerSet
IsUpperLetter(c) == c \in UpperSet
IsLetter(c) == IsLowerLetter(c) \/ IsUpperLetter(c)

IndexIn(c, letters) == CHOOSE i \in DOMAIN letters : letters[i] = c

UpperMap == [c \in LowerSet |-> UpperLetters[IndexIn(c, LowerLetters)]]
LowerMap == [c \in UpperSet |-> LowerLetters[IndexIn(c, UpperLetters)]]

UpperChar(c) == IF IsLowerLetter(c) THEN UpperMap[c] ELSE c
LowerChar(c) == IF IsUpperLetter(c) THEN LowerMap[c] ELSE c

Upper(s) == [i \in 1..Len(s) |-> UpperChar(s[i])]
Lower(s) == [i \in 1..Len(s) |-> LowerChar(s[i])]

\* str.title(): a letter is upper-cased when it does not follow a letter,
\* lower-cased when it does.
Title(s) == [i \in 1..Len(s) |->
               IF i > 1 /\ IsLetter(s[i-1]) THEN LowerChar(s[i]) ELSE UpperChar(s[i])]

\* str.strip(): drops leading and trailing whitespace.
Strip(s) ==
  LET keep == {i \in 1..Len(s) : s[i] \notin Whitespace}
  IN IF keep = {} THEN <<>>
     ELSE LET lo == CHOOSE i \in keep : \A j \in keep : i <= j
              hi == CHOOSE i \in keep : \A j \in keep : j <= i
          IN SubSeq(s, lo, hi)

(***************************************************************************)
(* Validation helpers.  re.match anchors at the start; "$" matches at the  *)
(* end of the string and also just before a newline that ends the string.  *)
(* The result is modelled by its truthiness (match object / None).         *)
(***************************************************************************)
IsWordChar(c) == IsLetter(c) \/ c \in Digits \/ c = "_"
IsAddrChar(c) == IsWordChar(c) \/ c = "." \/ c = "-"

\* The subject strings "$" lets a pattern end at: s itself, and s without a
\* final newline.
DollarEnds(s) ==
  {s} \cup (IF Len(s) > 0 /\ s[Len(s)] = "\n" THEN {SubSeq(s, 1, Len(s) - 1)} ELSE {})

\* t is exactly  [\w\.-]+ @ [\w\.-]+ \. \w+
EmailBody(t) ==
  \E i \in 1..Len(t) : \E j \in 1..Len(t) :
     /\ 1 < i /\ i + 1 < j /\ j < Len(t)
     /\ t[i] = "@" /\ t[j] = "."
     /\ \A k \in 1..(i-1) : IsAddrChar(t[k])
     /\ \A k \in (i+1)..(j-1) : IsAddrChar(t[k])
     /\ \A k \in (j+1)..Len(t) : IsWordChar(t[k])

validate_email(email) == \E t \in DollarEnds(email) : EmailBody(t)

\* t is exactly  S \d+
IdBody(t) ==
  /\ Len(t) >= 2
  /\ t[1] = "S"
  /\ \A k \in 2..Len(t) : t[k] \in Digits

validate_id(sid) == \E t \in DollarEnds(sid) : IdBody(t)

(***************************************************************************)
(* What the operator can type or pick.  Service names and dates are never  *)
(* converted by the program and are kept as atoms.                         *)
(***************************************************************************)
SidInputs == {<<"s","1">>, <<" ","S","2"," ">>, <<"1","0","1">>}
NameInputs == {<<"a","l">>, <<"A","L"," ">>, <<"o","'","b">>}
EmailInputs == {<<"A","@","B",".","c","o">>, <<"b","-","1","@","c",".","i","o"," ">>,
                <<"a"," ","l","@","b">>}
LogIdInputs == {<<"s","s","1">>, <<" ","S","S","2">>}
ConfirmInputs == {<<>>, <<" ","s","1"," ">>, <<"S","2">>}
SearchInputs == {<<>>, <<"A">>, <<"O","'">>}
\* One service date: the date only enters the label of a log.
Dates == {"2024-01-01"}
SeededServices == {[service_id |-> 1, service_name |-> "Tutoring"],
                   [service_id |-> 2, service_name |-> "Library"]}

\* What st.selectbox returns over an empty option list.
NoneValue == <<"None">>

(***************************************************************************)
(* The database: schema rules and the statements the controller issues.    *)
(***************************************************************************)
\* Students.student_id is unique.
StudentsKeyTaken(S, sid) == \E r \in S : r.student_id = sid

\* StudentServices.student_service_id is unique.
LogKeyTaken(L, lid) == \E l \in L : l.student_service_id = lid

\* StudentServices.student_id and .service_id reference existing rows.
LogRefsExist(S, V, s_id, v_id) ==
  /\ \E r \in S : r.student_id = s_id
  /\ \E v \in V : v.service_id = v_id

\* Deleting a Students row removes the StudentServices rows that reference it.
OnDeleteCascade(L, sid) == {l \in L : l.student_id # sid}

\* A SELECT without ORDER BY returns the rows in an order the engine chooses.
Orderings(T) ==
  {f \in [1..Cardinality(T) -> T] : \A i, j \in DOMAIN f : f[i] = f[j] => i = j}

\* INSERT INTO Students (student_id, name, email) VALUES (%s, %s, %s)
InsertStudent(S, sid, sname, semail) ==
  IF StudentsKeyTaken(S, sid)
  THEN [err |-> TRUE, tbl |-> S]
  ELSE [err |-> FALSE,
        tbl |-> S \cup {[student_id |-> sid, name |-> sname, email |-> semail]}]

\* INSERT INTO StudentServices VALUES (%s, %s, %s, %s)
InsertLog(L, S, V, log_id, s_id, v_id, date_val) ==
  IF LogKeyTaken(L, log_id) \/ ~LogRefsExist(S, V, s_id, v_id)
  THEN [err |-> TRUE, tbl |-> L]
  ELSE [err |-> FALSE,
        tbl |-> L \cup {[student_service_id |-> log_id, student_id |-> s_id,
                         service_id |-> v_id, service_date |-> date_val]}]

\* UPDATE Students SET email = %s WHERE student_id = %s
UpdateEmailStmt(S, new_email, tid) ==
  {IF r.student_id = tid THEN [r EXCEPT !.email = new_email] ELSE r : r \in S}

\* DELETE FROM StudentServices WHERE student_service_id = %s
DeleteLogStmt(L, log_id) == {l \in L : l.student_service_id # log_id}

\* DeleteStudentStmt with the ID compared to the name column.
DeleteStudentStmtByName(S, sid) == {r \in S : r.name # sid}

\* DELETE FROM Students WHERE student_id = %s
DeleteStudentStmt(S, sid) == {r \in S : r.student_id # sid}

\* conn.commit(): the pending rows become the table.
Commit(committed, pending) == pending

\* The rows of vw_StudentServiceTracker: the logs that join a student and a
\* service.
TrackerRows(S, V, L) ==
  {l \in L : (\E r \in S : r.student_id = l.student_id)
             /\ (\E v \in V : v.service_id = l.service_id)}

StudentOf(S, sid) == CHOOSE r \in S : r.student_id = sid
ServiceOf(V, vid) == CHOOSE v \in V : v.service_id = vid

\* A text spliced between quotes into a query ends the literal early when it
\* holds a quote: the statement no longer parses.
BreaksQuotedLiteral(text) == \E i \in 1..Len(text) : text[i] = "'"

\* logs_query of "Drop a Service": the logs of every student named
\* student_name, joined with their service.
LogsQuery(S, V, L, student_name) ==
  {l \in TrackerRows(S, V, L) : StudentOf(S, l.student_id).name = student_name}

\* logs_df['label']: service_name + " (" + str(service_date) + ")".  Dates print
\* with a fixed width, so two labels are equal iff name and date are.
LabelOf(V, l) == <<ServiceOf(V, l.service_id).service_name, l.service_date>>

(***************************************************************************)
(* Widgets and pandas lookups.                                             *)
(***************************************************************************)
\* The indices the operator can pick in a list of n options (0: no option).
SelRange(n) == IF n = 0 THEN {0} ELSE 1..n

\* st.selectbox(label, options): the value of the picked option.
Selectbox(options, sel) == IF Len(options) = 0 THEN NoneValue ELSE options[sel]

First(idx) == CHOOSE i \in idx : \A j \in idx : i <= j

\* st_df[st_df['name'] == selected]['student_id'].values[0]
LookupStudentId(st_df, selected) ==
  LET hits == {i \in 1..Len(st_df) : st_df[i].name = selected}
  IN IF hits = {} THEN [err |-> TRUE, id |-> <<>>]
     ELSE [err |-> FALSE, id |-> st_df[First(hits)].student_id]

\* sv_df[sv_df['service_name'] == selected]['service_id'].values[0]
LookupServiceId(sv_df, selected) ==
  LET hits == {i \in 1..Len(sv_df) : sv_df[i].service_name = selected}
  IN IF hits = {} THEN [err |-> TRUE, id |-> 0]
     ELSE [err |-> FALSE, id |-> sv_df[First(hits)].service_id]

\* logs_df[logs_df['label'] == selected_log_label]['student_service_id'].values[0]
LookupLogId(V, logs_df, selected_label) ==
  LET hits == {i \in 1..Len(logs_df) : LabelOf(V, logs_df[i]) = selected_label}
  IN logs_df[First(hits)].student_service_id

NamesOf(df) == [i \in 1..Len(df) |-> df[i].name]
ServiceNamesOf(df) == [i \in 1..Len(df) |-> df[i].service_name]

(***************************************************************************)
(* main(): one action per way one script run can go.  `last` records what  *)
(* the run was given and what it resolved (picked: the student_id of the   *)
(* entry picked; used: the student_id the code resolved; owned: the logs   *)
(* that student had when the run began); conn, crash, rerun and msgs are *)
(* how it ended: the connection's state, the exception that left main()    *)
(* ("none" when none did), whether st.rerun() cut it short, and the        *)
(* messages it showed.                                                     *)
(***************************************************************************)
RunOf(nav, pressed) ==
  [nav |-> nav, pressed |-> pressed, handled |-> FALSE,
   picked |-> <<>>, used |-> <<>>, pickedLog |-> <<>>,
   confirm |-> <<>>, expected |-> <<>>,
   idOk |-> FALSE, emailOk |-> FALSE, shown |-> 0, owned |-> 0]

NoRun == RunOf("none", "none")

\* How main() leaves the connection: conn.close() is its last statement, so it
\* runs only when no exception and no st.rerun() ended the run before it.
ConnAtEnd(crashed, rerunning) ==
  IF crashed = "none" /\ ~rerunning THEN "closed" ELSE "open"

\* Text inputs as the code normalises them.
sid_of(raw) == Upper(Strip(raw))
sname_of(raw) == Title(Strip(raw))
semail_of(raw) == Lower(Strip(raw))
log_id_of(raw) == Upper(Strip(raw))
new_email_not_lowered(raw) == Strip(raw)
new_email_of(raw) == Lower(Strip(raw))
confirm_id_of(raw) == Upper(Strip(raw))

\* AddStudentOutcome without the email branch.
AddStudentOutcomeIdOnly(sid, semail) ==
  IF ~validate_id(sid) THEN "id_error" ELSE "insert"

\* "Save Student": which branch the submitted form takes.
AddStudentOutcome(sid, semail) ==
  IF ~validate_id(sid) THEN "id_error"
  ELSE IF ~validate_email(semail) THEN "email_error"
  ELSE "insert"

\* ConfirmMatches that only checks that something was typed.
ConfirmMatchesAnyTyped(confirm_id, expected_id) == confirm_id # <<>>

\* "Confirm Permanent Deletion": confirm_id == expected_id
ConfirmMatches(confirm_id, expected_id) == confirm_id = expected_id

\* The part of the "Remove Records" tab that runs on every Registration Desk
\* run, whichever button was pressed: the student list, then the logs query of
\* the picked name (Drop) or the lookup of the expected ID by the picked name
\* (Delete), which fails when no row of the list has that name.
RemoveTabView(S, V, L, remove_option, student_name) ==
  IF remove_option = "drop"
  THEN IF BreaksQuotedLiteral(student_name)
       THEN [crash |-> "DatabaseError", msgs |-> {}]
       ELSE IF LogsQuery(S, V, L, student_name) = {}
            THEN [crash |-> "none", msgs |-> {"not_enrolled"}]
            ELSE [crash |-> "none", msgs |-> {}]
  ELSE IF \A r \in S : r.name # student_name
       THEN [crash |-> "IndexError", msgs |-> {}]
       ELSE [crash |-> "none", msgs |-> {}]

\* The names st.selectbox can return over the student list of S.
PickableNames(S) == IF S = {} THEN {NoneValue} ELSE {r.name : r \in S}

RemoveOptions == {"drop", "delete"}

\* The "Enroll a New Student" forms the operator can submit, as the code
\* normalises and validates them.
SaveForms ==
  {[sid |-> sid_of(a), sname |-> sname_of(b), semail |-> semail_of(c),
    idOk |-> validate_id(sid_of(a)) # FALSE,
    emailOk |-> validate_email(semail_of(c)) # FALSE,
    outcome |-> AddStudentOutcome(sid_of(a), semail_of(c))] :
     a \in SidInputs, b \in NameInputs, c \in EmailInputs}

\* The log-entry IDs, new emails and confirmation texts the operator can
\* submit, as the code normalises (and, for the email, validates) them.
LogIds == {log_id_of(raw) : raw \in LogIdInputs}
NewEmails ==
  {[new_email |-> new_email_of(raw), ok |-> validate_email(new_email_of(raw)) # FALSE] :
     raw \in EmailInputs}
ConfirmIds == {confirm_id_of(raw) : raw \in ConfirmInputs}

\* A student list as one read returns it, and the entry the operator picks.
StudentPicks(S) ==
  UNION {{[st_list |-> o, sel |-> i] : i \in SelRange(Len(o))} : o \in Orderings(S)}

\* What picking an entry of a student list resolves to: the student_id of the
\* entry picked, the name the selectbox returns and the lookup by that name.
StudentChoices(S) ==
  {[picked |-> IF p.sel = 0 THEN <<>> ELSE p.st_list[p.sel].student_id,
    name |-> Selectbox(NamesOf(p.st_list), p.sel),
    lookup |-> LookupStudentId(p.st_list, Selectbox(NamesOf(p.st_list), p.sel))] :
     p \in StudentPicks(S)}

\* What picking an entry of the service list resolves to.
ServiceChoices(V) ==
  UNION {{LookupServiceId(sv_df, Selectbox(ServiceNamesOf(sv_df), i)) :
            i \in SelRange(Len(sv_df))} : sv_df \in Orderings(V)}

\* What picking an entry of a non-empty list of logs resolves to: the log
\* picked and the log the lookup by its label returns.
LogChoices(V, logs) ==
  UNION {{[pickedLog |-> logs_df[i].student_service_id,
           log_id |-> LookupLogId(V, logs_df, LabelOf(V, logs_df[i]))] :
            i \in 1..Len(logs_df)} : logs_df \in Orderings(logs)}

\* The outcomes RemoveTabView can have over the tables S, V, L: one per mode of
\* the radio button and name picked.
RemoveTabViews(S, V, L) ==
  {RemoveTabView(S, V, L, remove_option, student_name) :
     remove_option \in RemoveOptions, student_name \in PickableNames(S)}

Init ==
  /\ Students = {}
  /\ StudentServices = {}
  /\ Services \in {{}, SeededServices}
  /\ conn = "none" /\ crash = "none" /\ rerun = FALSE /\ msgs = {}
  /\ last = NoRun
  /\ arg = <<>> /\ res = FALSE /\ pc = "main"

pure == <<arg, res, pc>>

\* get_db_connection() fails: the error is shown and main() returns.
ConnectFails ==
  /\ pc = "main"
  /\ conn' = "none" /\ crash' = "none" /\ rerun' = FALSE
  /\ msgs' = {"connect_error"}
  /\ last' = RunOf("connect_failed", "none")
  /\ UNCHANGED <<dbvars, pure>>

\* "Refresh System": st.rerun() ends the run right after the cursor is made.
Refresh ==
  /\ pc = "main"
  /\ conn' = ConnAtEnd("none", TRUE) /\ crash' = "none" /\ rerun' = TRUE
  /\ msgs' = {}
  /\ last' = RunOf("refresh", "refresh")
  /\ UNCHANGED <<dbvars, pure>>

Dashboard ==
  /\ pc = "main"
  /\ msgs' = IF TrackerRows(Students, Services, StudentServices) = {}
             THEN {"no_data"} ELSE {"charts"}
  /\ conn' = ConnAtEnd("none", FALSE) /\ crash' = "none" /\ rerun' = FALSE
  /\ last' = RunOf("dashboard", "none")
  /\ UNCHANGED <<dbvars, pure>>

\* s starts with prefix (LIKE 'prefix%').
StartsWith(s, prefix) ==
  Len(prefix) <= Len(s) /\ SubSeq(s, 1, Len(prefix)) = prefix

Search ==
  /\ pc = "main"
  /\ \E search \in SearchInputs :
       LET broken == search # <<>> /\ BreaksQuotedLiteral(search)
           rows == {l \in TrackerRows(Students, Services, StudentServices) :
                      search # <<>> =>
                        StartsWith(StudentOf(Students, l.student_id).name, search)}
           failed == IF broken THEN "DatabaseError" ELSE "none"
       IN /\ crash' = failed
          /\ conn' = ConnAtEnd(failed, FALSE)
          /\ last' = [RunOf("search", "none") EXCEPT
                        !.shown = IF broken THEN 0 ELSE Cardinality(rows)]
  /\ rerun' = FALSE /\ msgs' = {}
  /\ UNCHANGED <<dbvars, pure>>

Export ==
  /\ pc = "main"
  /\ conn' = ConnAtEnd("none", FALSE) /\ crash' = "none" /\ rerun' = FALSE
  /\ msgs' = {"download"}
  /\ last' = [RunOf("export", "none") EXCEPT
                !.shown = Cardinality(TrackerRows(Students, Services, StudentServices))]
  /\ UNCHANGED <<dbvars, pure>>

\* Registration Desk, no button pressed (a widget was changed).
RegIdle ==
  /\ pc = "main"
  /\ \E view \in RemoveTabViews(Students, Services, StudentServices) :
       /\ crash' = view.crash
       /\ conn' = ConnAtEnd(view.crash, FALSE)
       /\ msgs' = view.msgs
  /\ rerun' = FALSE
  /\ last' = RunOf("registration", "none")
  /\ UNCHANGED <<dbvars, pure>>

\* Whether a write statement raises mysql.connector.Error: it does when it
\* breaks a constraint, and it may for the server's own reasons (the connection
\* dropped) when it breaks none.
Raises(constraint_broken) == IF constraint_broken THEN {TRUE} ELSE BOOLEAN

\* Registration Desk, "Save Student" pressed.
RegSave ==
  /\ pc = "main"
  /\ \E form \in SaveForms :
     \E err \in Raises(InsertStudent(Students, form.sid, form.sname, form.semail).err) :
       LET ins == InsertStudent(Students, form.sid, form.sname, form.semail)
           S1 == IF form.outcome = "insert" /\ ~err
                 THEN Commit(Students, ins.tbl) ELSE Students
           shown == CASE form.outcome = "id_error" -> {"id_format_error"}
                      [] form.outcome = "email_error" -> {"invalid_email"}
                      [] form.outcome = "insert" /\ err -> {"error"}
                      [] OTHER -> {"added"}
       IN /\ (err /\ ~ins.err) => form.outcome = "insert"
          /\ Students' = S1
          /\ last' = [RunOf("registration", "save") EXCEPT
                        !.handled = TRUE,
                        !.idOk = form.idOk, !.emailOk = form.emailOk]
          /\ \E view \in RemoveTabViews(S1, Services, StudentServices) :
               /\ crash' = view.crash
               /\ conn' = ConnAtEnd(view.crash, FALSE)
               /\ msgs' = shown \cup view.msgs
  /\ rerun' = FALSE
  /\ UNCHANGED <<Services, StudentServices, pure>>

\* Registration Desk, "Confirm Service Log" pressed.
RegLog ==
  /\ pc = "main"
  /\ \E log_id \in LogIds : \E c \in StudentChoices(Students) :
     \E v \in ServiceChoices(Services) : \E date_val \in Dates :
     \E err \in Raises(InsertLog(StudentServices, Students, Services, log_id,
                                 c.lookup.id, v.id, date_val).err) :
       LET s == c.lookup
           raised == s.err \/ v.err
           ins == InsertLog(StudentServices, Students, Services,
                            log_id, s.id, v.id, date_val)
           L1 == IF ~raised /\ ~err
                 THEN Commit(StudentServices, ins.tbl) ELSE StudentServices
           shown == IF raised THEN {} ELSE IF err THEN {"error"} ELSE {"registered"}
       IN /\ (err /\ ~ins.err) => ~raised
          /\ StudentServices' = L1
          /\ last' = [RunOf("registration", "log") EXCEPT
                        !.handled = ~raised, !.picked = c.picked, !.used = s.id]
          /\ IF raised
             THEN /\ crash' = "IndexError"
                  /\ conn' = ConnAtEnd("IndexError", FALSE)
                  /\ msgs' = shown
             ELSE \E view \in RemoveTabViews(Students, Services, L1) :
                    /\ crash' = view.crash
                    /\ conn' = ConnAtEnd(view.crash, FALSE)
                    /\ msgs' = shown \cup view.msgs
  /\ rerun' = FALSE
  /\ UNCHANGED <<Students, Services, pure>>

\* Registration Desk, "Update Email" pressed.  The UPDATE is not inside a try:
\* an error it raises leaves main().
RegUpdate ==
  /\ pc = "main"
  /\ \E e \in NewEmails : \E c \in StudentChoices(Students) : \E fault \in Raises(FALSE) :
       LET t == c.lookup
           raised == IF ~e.ok THEN "none"
                     ELSE IF t.err THEN "IndexError"
                     ELSE IF fault THEN "MySQLError" ELSE "none"
           written == e.ok /\ raised = "none"
           S1 == IF written
                 THEN Commit(Students, UpdateEmailStmt(Students, e.new_email, t.id))
                 ELSE Students
           shown == IF written THEN {"email_updated"} ELSE {}
       IN /\ fault => e.ok /\ ~t.err
          /\ Students' = S1
          /\ last' = [RunOf("registration", "update") EXCEPT
                        !.handled = raised # "IndexError",
                        !.emailOk = e.ok,
                        !.picked = c.picked,
                        !.used = IF e.ok THEN t.id ELSE <<>>]
          /\ IF raised # "none"
             THEN /\ crash' = raised
                  /\ conn' = ConnAtEnd(raised, FALSE)
                  /\ msgs' = shown
             ELSE \E view \in RemoveTabViews(S1, Services, StudentServices) :
                    /\ crash' = view.crash
                    /\ conn' = ConnAtEnd(view.crash, FALSE)
                    /\ msgs' = shown \cup view.msgs
  /\ rerun' = FALSE
  /\ UNCHANGED <<Services, StudentServices, pure>>

\* Registration Desk, "Drop Selected Service" pressed: the button exists only
\* in Drop mode, when the logs query parsed and returned rows.  The DELETE is
\* not inside a try; st.rerun() follows the commit.
RegDrop ==
  /\ pc = "main"
  /\ \E c \in StudentChoices(Students) : \E fault \in Raises(FALSE) :
       LET student_name == c.name
           logs == LogsQuery(Students, Services, StudentServices, student_name)
           raised == IF fault THEN "MySQLError" ELSE "none"
       IN /\ ~BreaksQuotedLiteral(student_name)
          /\ logs # {}
          /\ \E k \in LogChoices(Services, logs) :
               /\ StudentServices' =
                    IF fault THEN StudentServices
                    ELSE Commit(StudentServices, DeleteLogStmt(StudentServices, k.log_id))
               /\ last' = [RunOf("registration", "drop") EXCEPT
                             !.handled = TRUE,
                             !.picked = c.picked,
                             !.pickedLog = k.pickedLog]
          /\ crash' = raised
          /\ rerun' = ~fault
          /\ conn' = ConnAtEnd(raised, ~fault)
          /\ msgs' = IF fault THEN {} ELSE {"service_removed"}
  /\ UNCHANGED <<Students, Services, pure>>

\* Registration Desk, "Confirm Permanent Deletion" pressed: the button exists
\* only in Delete mode, when the expected ID was resolved.  The DELETE is not
\* inside a try; st.rerun() follows the commit.
RegDelete ==
  /\ pc = "main"
  /\ \E c \in StudentChoices(Students) : \E confirm_id \in ConfirmIds :
     \E fault \in Raises(FALSE) :
       LET expected_id == c.lookup.id
           match == ConfirmMatches(confirm_id, expected_id)
           raised == IF match /\ fault THEN "MySQLError" ELSE "none"
           deleted == match /\ ~fault
       IN /\ ~c.lookup.err
          /\ fault => match
          /\ Students' = IF deleted
                         THEN Commit(Students, DeleteStudentStmt(Students, confirm_id))
                         ELSE Students
          /\ StudentServices' =
               IF deleted
               THEN Commit(StudentServices, OnDeleteCascade(StudentServices, confirm_id))
               ELSE StudentServices
          /\ crash' = raised
          /\ rerun' = deleted
          /\ conn' = ConnAtEnd(raised, deleted)
          /\ msgs' = IF deleted THEN {"wiped"}
                     ELSE IF match THEN {} ELSE {"verification_failed"}
          /\ last' = [RunOf("registration", "delete") EXCEPT
                        !.handled = TRUE,
                        !.picked = c.picked,
                        !.used = expected_id,
                        !.confirm = confirm_id,
                        !.expected = expected_id,
                        !.owned = Cardinality({l \in StudentServices :
                                                 l.student_id = expected_id})]
  /\ UNCHANGED <<Services, pure>>

Next ==
  \/ ConnectFails
  \/ Refresh
  \/ Dashboard
  \/ Search
  \/ Export
  \/ RegIdle
  \/ RegSave
  \/ RegLog
  \/ RegUpdate
  \/ RegDrop
  \/ RegDelete

Spec == Init /\ [][Next]_vars

(***************************************************************************)
(* Properties of main().                                                   *)
(***************************************************************************)
DeleteHandled == last.pressed = "delete" /\ last.handled

\* C1: in Delete Student, when the typed confirmation (trimmed, upper-cased)
\* differs from the expected student_id, the confirm button reports a
\* verification failure and leaves every table exactly as it was.
C1_MismatchLeavesTables ==
  [][(DeleteHandled' /\ last'.confirm # last'.expected)
       => /\ "verification_failed" \in msgs'
          /\ Students' = Students
          /\ StudentServices' = StudentServices
          /\ Services' = Services]_vars

C1_Witness ==
  /\ DeleteHandled /\ last.confirm # last.expected
  /\ last.confirm # <<>>
  /\ "verification_failed" \in msgs
  /\ \E l \in StudentServices : l.student_id = last.expected

\* C2: after a Delete Student action on X with a matching confirmation ID has
\* completed, Students holds no row for X and StudentServices holds no row
\* whose student_id is X, however many logs X owned.
C2_DeleteRemovesStudentAndLogs ==
  (DeleteHandled /\ last.confirm = last.expected /\ crash = "none")
    => /\ \A r \in Students : r.student_id # last.expected
       /\ \A l \in StudentServices : l.student_id # last.expected

C2_Witness ==
  /\ DeleteHandled /\ last.confirm = last.expected /\ crash = "none"
  /\ last.owned = 2
  /\ "wiped" \in msgs

\* C3: a validation failure never mutates the database: Add Student with an
\* ID or an email that fails its pattern, and Update Email with an email that
\* fails its pattern, leave every table unchanged.
C3_ValidationFailureLeavesTables ==
  [][(\/ last'.pressed = "save" /\ last'.handled /\ (~last'.idOk \/ ~last'.emailOk)
      \/ last'.pressed = "update" /\ last'.handled /\ ~last'.emailOk)
       => /\ Students' = Students
          /\ StudentServices' = StudentServices
          /\ Services' = Services]_vars

C3_Witness ==
  /\ last.pressed = "save" /\ last.handled
  /\ last.idOk /\ ~last.emailOk
  /\ "invalid_email" \in msgs
  /\ Students # {}

\* C4: every email stored in Students is lowercase and matches the pattern of
\* validate_email, after any sequence of Add Student and Update Email actions.
C4_StoredEmailsLowerValid ==
  \A r \in Students : Lower(r.email) = r.email /\ validate_email(r.email)

C4_Witness ==
  /\ last.pressed = "update" /\ "email_updated" \in msgs
  /\ \E r \in Students :
       r.student_id = last.used /\ r.email = <<"a","@","b",".","c","o">>

\* C5: Drop a Service deletes exactly the StudentServices row with the
\* selected student_service_id and leaves every other row, and every Students
\* row, unchanged, also when two listed logs share service name and date.
C5_DropRemovesSelectedLog ==
  [][(last'.pressed = "drop" /\ last'.handled /\ crash' = "none")
       => /\ StudentServices' =
               {l \in StudentServices : l.student_service_id # last'.pickedLog}
          /\ Students' = Students]_vars

\* C6: with Students or Services empty, no Registration Desk run ends in an
\* unhandled failure of a selection made over zero options.
C6_EmptyListsDoNotCrash ==
  [][((Students = {} \/ Services = {}) /\ last'.nav = "registration")
       => crash' # "IndexError"]_vars

\* C7: no run ends with a database error escaping main().
C7_NoDatabaseErrorEscapes == crash \notin {"DatabaseError", "MySQLError"}

\* C8: no run that opened a connection ends with the connection still open.
C8_ConnectionClosed == conn # "open"

\* C10: in Log Service, Update Email and Delete Student the student_id the
\* action uses is the student_id of the entry the operator picked.
C10_UsesPickedStudent ==
  (/\ last.handled
   /\ \/ last.pressed \in {"log", "delete"}
      \/ last.pressed = "update" /\ last.emailOk)
    => last.used = last.picked

(***************************************************************************)
(* Specification of the validator alone: validate_id applied to every      *)
(* string over IdAlphabet of length at most MaxLen.                        *)
(***************************************************************************)
IdAlphabet == {"S", "s", "1", "A", " ", "\n"}

Strings(alphabet, n) == UNION {[1..k -> alphabet] : k \in 0..n}

InitV ==
  /\ Students = {} /\ Services = {} /\ StudentServices = {}
  /\ conn = "none" /\ crash = "none" /\ rerun = FALSE /\ msgs = {}
  /\ last = NoRun
  /\ arg \in Strings(IdAlphabet, MaxLen)
  /\ res = FALSE
  /\ pc = "call"

CallValidateId ==
  /\ pc = "call"
  /\ res' = validate_id(arg)
  /\ pc' = "done"
  /\ UNCHANGED <<Students, Services, StudentServices, conn, crash, rerun, msgs, last, arg>>

NextV == CallValidateId

SpecV == InitV /\ [][NextV]_vars

\* s is the capital letter "S" followed by one or more decimal digits and
\* nothing else.
IsSThenDigits(s) ==
  /\ Len(s) >= 2
  /\ s[1] = "S"
  /\ \A k \in 2..Len(s) : s[k] \in Digits

\* C9: validate_id(s) is truthy iff s is "S" followed by one or more decimal
\* digits and nothing else (no trailing line break either).
C9_ValidateIdExact == pc = "done" => (res <=> IsSThenDigits(arg))
====
